---------------------------- MODULE Spec2Model ----------------------------
(***************************************************************************)
(* Data cleaning and outlier-correction stages of the solar-dataset        *)
(* toolkit (src/src/cleaning.py, src/src/preprocess.py, src/src/utils.py). *)
(*                                                                         *)
(* A table (pandas DataFrame) is a sequence of columns; a column is a      *)
(* record [name, dtype, cells].  A column name is a sequence of one-       *)
(* character strings so that strip / lower / replace act on characters.    *)
(* A cell is missing (NaN / None), a number or a text.  Numbers are float64*)
(* values that are dyadic rationals n / d (d a power of two, lowest        *)
(* terms), which is exact for the halving a median performs.               *)
(***************************************************************************)
EXTENDS Integers, Sequences, FiniteSets, TLC

(* df: the caller's table; arg: the table passed to the last call, as it   *)
(* was when passed; given: what the table object passed to the last call   *)
(* holds after the call; call: the stage called and its target list; err:  *)
(* the exception the call raised; out: what the call printed or signalled. *)
VARIABLES df, arg, given, call, err, out

vars == <<df, arg, given, call, err, out>>

-----------------------------------------------------------------------------
(* Bounds of the explored inputs *)

MaxRows == 4

LongRows == 12

-----------------------------------------------------------------------------
(* Cells *)

NaN == [k |-> "nan", n |-> 0, d |-> 1, s |-> ""]

Num(x) == [k |-> "num", n |-> x, d |-> 1, s |-> ""]

Str(t) == [k |-> "str", n |-> 0, d |-> 1, s |-> t]

IsNa(c) == c.k = "nan"

IsNum(c) == c.k = "num"

RECURSIVE Norm(_, _)
Norm(x, y) ==
    IF y > 1 /\ x % 2 = 0 THEN Norm(x \div 2, y \div 2)
    ELSE [k |-> "num", n |-> x, d |-> y, s |-> ""]

(* exact arithmetic on dyadic numbers *)
Add(a, b) == Norm(a.n * b.d + b.n * a.d, a.d * b.d)

Sub(a, b) == Norm(a.n * b.d - b.n * a.d, a.d * b.d)

Scale(a, p, q) == Norm(a.n * p, a.d * q)

Leq(a, b) == a.n * b.d <= b.n * a.d

Less(a, b) == a.n * b.d < b.n * a.d

(* pd.to_numeric(..., errors="coerce") on one cell: numbers stay, a text    *)
(* that spells a number is parsed, anything else becomes NaN.               *)
NumericText == ("8" :> 8) @@ ("40" :> 40)

ToNumeric(c) ==
    IF c.k = "num" THEN c
    ELSE IF c.k = "str" /\ c.s \in DOMAIN NumericText THEN Num(NumericText[c.s])
    ELSE NaN

(* sort order of the texts used (code-point order: digits before letters)  *)
StrRank == ("40" :> 1) @@ ("8" :> 2) @@ ("A" :> 3) @@ ("B" :> 4) @@ ("Unknown" :> 5)

-----------------------------------------------------------------------------
(* Sequences *)

Range(s) == {s[i] : i \in DOMAIN s}

RECURSIVE SelectIdx(_, _, _)
SelectIdx(s, keep, i) ==
    IF i > Len(s) THEN <<>>
    ELSE IF i \in keep THEN <<s[i]>> \o SelectIdx(s, keep, i + 1)
    ELSE SelectIdx(s, keep, i + 1)

RECURSIVE Insert(_, _)
Insert(x, s) ==
    IF s = <<>> THEN <<x>>
    ELSE IF Leq(x, Head(s)) THEN <<x>> \o s
    ELSE <<Head(s)>> \o Insert(x, Tail(s))

RECURSIVE Sorted(_)
Sorted(s) ==
    IF s = <<>> THEN <<>> ELSE Insert(Head(s), Sorted(Tail(s)))

(* Series.dropna(): the non-missing cells, in row order *)
DropNa(cells) == SelectSeq(cells, LAMBDA c : ~IsNa(c))

(* Series.median(): NaN skipped; NaN when nothing is left *)
Median(cells) ==
    LET v == Sorted(DropNa(cells))
        m == Len(v)
    IN  IF m = 0 THEN NaN
        ELSE IF m % 2 = 1 THEN v[(m + 1) \div 2]
        ELSE Scale(Add(v[m \div 2], v[m \div 2 + 1]), 1, 2)

(* Series.fillna(value): fillna(NaN) changes nothing *)
FillNa(cells, value) ==
    [i \in DOMAIN cells |-> IF IsNa(cells[i]) THEN value ELSE cells[i]]

(* Series.quantile(p / 4), linear interpolation, NaN skipped *)
Quantile(cells, p) ==
    LET v == Sorted(DropNa(cells))
        m == Len(v)
        lo == ((m - 1) * p) \div 4
        r == ((m - 1) * p) % 4
    IN  IF m = 0 THEN NaN
        ELSE IF r = 0 THEN v[lo + 1]
        ELSE Add(v[lo + 1], Scale(Sub(v[lo + 2], v[lo + 1]), r, 4))


-----------------------------------------------------------------------------
(* Column names *)

LowerMap ==
    ("G" :> "g") @@ ("H" :> "h") @@ ("I" :> "i") @@ ("C" :> "c") @@ ("A" :> "a")

(* str.strip(): leading and trailing blanks removed *)
RECURSIVE LStrip(_)
LStrip(nm) ==
    IF nm # <<>> /\ Head(nm) = " " THEN LStrip(Tail(nm)) ELSE nm

RECURSIVE RStrip(_)
RStrip(nm) ==
    IF nm # <<>> /\ nm[Len(nm)] = " " THEN RStrip(SubSeq(nm, 1, Len(nm) - 1)) ELSE nm

Strip(nm) == RStrip(LStrip(nm))

(* str.lower() *)
Lower(nm) ==
    [i \in DOMAIN nm |-> IF nm[i] \in DOMAIN LowerMap THEN LowerMap[nm[i]] ELSE nm[i]]

(* str.replace(" ", "_") *)
ReplaceSpaces(nm) ==
    [i \in DOMAIN nm |-> IF nm[i] = " " THEN "_" ELSE nm[i]]

NormalizeName(nm) == ReplaceSpaces(Lower(Strip(nm)))

ghi == <<"g", "h", "i">>

dni == <<"d", "n", "i">>

tamb == <<"t", "a", "m", "b">>

(* the measurement columns of the pipeline *)
key_cols ==
    << ghi, dni, <<"d", "h", "i">>, <<"m", "o", "d", "a">>, <<"m", "o", "d", "b">>,
       <<"w", "s">>, <<"w", "s", "g", "u", "s", "t">>, tamb, <<"r", "h">> >>

-----------------------------------------------------------------------------
(* Tables *)

Column(nm, dt, cells) == [name |-> nm, dtype |-> dt, cells |-> cells]

Names(t) == [i \in DOMAIN t |-> t[i].name]

NRows(t) == IF t = <<>> THEN 0 ELSE Len(t[1].cells)

(* positions of the columns labelled nm: empty when absent, more than one  *)
(* when the label is duplicated (df[nm] is then a DataFrame, not a Series) *)
ColIdx(t, nm) == {i \in DOMAIN t : t[i].name = nm}

TheCol(t, nm) == CHOOSE i \in ColIdx(t, nm) : TRUE

UniqueNames(t) == \A i, j \in DOMAIN t : t[i].name = t[j].name => i = j

(* df[mask]: the rows in keep, in order, in every column *)
KeepRows(t, keep) ==
    [i \in DOMAIN t |-> [t[i] EXCEPT !.cells = SelectIdx(t[i].cells, keep, 1)]]

(* the result of a call: a returned table, or the exception raised, and    *)
(* the messages printed on the way (none of the stages calls warnings.warn *)
(* or a logger)                                                             *)
Ok(t) == [err |-> "none", t |-> t, out |-> <<>>]

Raise(e) == [err |-> e, t |-> <<>>, out |-> <<>>]

(* print(f"..."): a message text and the numbers formatted into it *)
Msg(text, nums) == [text |-> text, nums |-> nums]

Printed(r, m) == [r EXCEPT !.out = Append(@, m)]

-----------------------------------------------------------------------------
(* cleaning.clean_column_names / preprocess.standardize_columns:           *)
(* df.columns = df.columns.str.strip().str.lower().str.replace(" ", "_")   *)
(* on a copy; pandas accepts duplicated labels, nothing is raised.          *)

clean_column_names(t) ==
    Ok([i \in DOMAIN t |-> [t[i] EXCEPT !.name = NormalizeName(t[i].name)]])

standardize_columns(t) ==
    Ok([i \in DOMAIN t |-> [t[i] EXCEPT !.name = NormalizeName(t[i].name)]])

-----------------------------------------------------------------------------
(* DataFrame.drop_duplicates(): the first occurrence of each row is kept;  *)
(* missing equals missing.                                                  *)

RowEq(t, i, j) == \A c \in DOMAIN t : t[c].cells[i] = t[c].cells[j]

(* variant: drop_duplicates(keep="last") *)
drop_duplicates_last(t) ==
    KeepRows(t, {i \in 1..NRows(t) : \A j \in (i + 1)..NRows(t) : ~RowEq(t, i, j)})

drop_duplicates(t) ==
    KeepRows(t, {i \in 1..NRows(t) : \A j \in 1..(i - 1) : ~RowEq(t, i, j)})

(* the count printed by remove_duplicates: before - after *)
RemovedCount(t) == NRows(t) - NRows(drop_duplicates(t))

remove_duplicates(t) ==
    Printed(Ok(drop_duplicates(t)), Msg("Removed duplicate rows", <<RemovedCount(t)>>))

(* utils.remove_duplicates: the count is printed only when it is positive *)
utils_remove_duplicates(t) ==
    LET removed == NRows(t) - NRows(drop_duplicates(t))
    IN  IF removed > 0
        THEN Printed(Ok(drop_duplicates(t)), Msg("Removed duplicate rows.", <<removed>>))
        ELSE Printed(Ok(drop_duplicates(t)), Msg("No duplicate rows found.", <<>>))

-----------------------------------------------------------------------------
(* cleaning.handle_missing *)

Count(cells, v) == Cardinality({i \in DOMAIN cells : cells[i] = v})

(* Series.mode(): the most frequent non-missing values, sorted ascending *)
Modes(cells) ==
    LET vals == Range(DropNa(cells))
    IN  {v \in vals : \A w \in vals : Count(cells, w) <= Count(cells, v)}

(* variant: of tied modes, the one met first in row order *)
ModeValFirst(cells) ==
    LET ms == Modes(cells)
    IN  IF ms = {} THEN Str("Unknown")
        ELSE cells[CHOOSE i \in DOMAIN cells :
                      cells[i] \in ms /\ \A j \in 1..(i - 1) : cells[j] \notin ms]

(* variant: the smallest non-missing value, however often it occurs *)
ModeValSmallest(cells) ==
    LET vals == Range(DropNa(cells))
    IN  IF vals = {} THEN Str("Unknown")
        ELSE CHOOSE v \in vals : \A w \in vals : StrRank[v.s] <= StrRank[w.s]

(* mode()[0] if not mode().empty else "Unknown" *)
ModeVal(cells) ==
    LET ms == Modes(cells)
    IN  IF ms = {} THEN Str("Unknown")
        ELSE CHOOSE v \in ms : \A w \in ms : StrRank[v.s] <= StrRank[w.s]

HandleColumn(c) ==
    IF c.dtype = "object" THEN [c EXCEPT !.cells = FillNa(c.cells, ModeVal(c.cells))]
    ELSE [c EXCEPT !.cells = FillNa(c.cells, Median(c.cells))]

handle_missing(t) ==
    IF ~UniqueNames(t) THEN Raise("AttributeError")
    ELSE Ok([i \in DOMAIN t |-> HandleColumn(t[i])])

-----------------------------------------------------------------------------
(* cleaning.remove_outliers: the IQR filter.  factor = FactorNum/FactorDen *)

FactorNum == 3

FactorDen == 2

(* (df[col] >= lower_bound) & (df[col] <= upper_bound): a comparison with  *)
(* NaN on either side is False                                              *)
InFence(c, q1, q3) ==
    LET iqr == Sub(q3, q1)
        lower_bound == Sub(q1, Scale(iqr, FactorNum, FactorDen))
        upper_bound == Add(q3, Scale(iqr, FactorNum, FactorDen))
    IN  /\ IsNum(c)
        /\ IsNum(q1)
        /\ Leq(lower_bound, c)
        /\ Leq(c, upper_bound)

(* variant: only the upper fence is applied *)
IqrKeepUpperOnly(cells) ==
    LET q1 == Quantile(cells, 1)
        q3 == Quantile(cells, 3)
        upper_bound == Add(q3, Scale(Sub(q3, q1), FactorNum, FactorDen))
    IN  {i \in DOMAIN cells : IsNum(cells[i]) /\ IsNum(q1) /\ Leq(cells[i], upper_bound)}

IqrKeep(cells) ==
    LET q1 == Quantile(cells, 1)
        q3 == Quantile(cells, 3)
    IN  {i \in DOMAIN cells : InFence(cells[i], q1, q3)}

RECURSIVE IqrLoop(_, _, _)
IqrLoop(t, cols, i) ==
    IF i > Len(cols) THEN Ok(t)
    ELSE LET idx == ColIdx(t, cols[i])
         IN  IF idx = {} THEN Raise("KeyError")
             ELSE IF Cardinality(idx) > 1 THEN Raise("AttributeError")
             ELSE IF t[TheCol(t, cols[i])].dtype = "object" THEN IqrLoop(t, cols, i + 1)
             ELSE IqrLoop(KeepRows(t, IqrKeep(t[TheCol(t, cols[i])].cells)), cols, i + 1)

remove_outliers(t, cols) == IqrLoop(t, cols, 1)

-----------------------------------------------------------------------------
(* cleaning.fill_missing_values *)

CoerceCells(cells) == [i \in DOMAIN cells |-> ToNumeric(cells[i])]

(* variant: the median leaves out the largest value *)
FillColumnDropMax(c) ==
    LET numeric == CoerceCells(c.cells)
        v == Sorted(DropNa(numeric))
        kept == IF Len(v) > 1 THEN SubSeq(v, 1, Len(v) - 1) ELSE v
    IN  [c EXCEPT !.dtype = "float64", !.cells = FillNa(numeric, Median(kept))]

(* variant: fillna(..., limit=1), only the first missing cell is filled *)
FillColumnLimit1(c) ==
    LET numeric == CoerceCells(c.cells)
        first == {i \in DOMAIN numeric :
                     IsNa(numeric[i]) /\ \A j \in 1..(i - 1) : ~IsNa(numeric[j])}
    IN  [c EXCEPT !.dtype = "float64",
                  !.cells = [i \in DOMAIN numeric |->
                                IF i \in first THEN Median(numeric) ELSE numeric[i]]]

FillColumn(c) ==
    LET numeric == CoerceCells(c.cells)
    IN  [c EXCEPT !.dtype = "float64", !.cells = FillNa(numeric, Median(numeric))]

(* variant: only the column listed first is filled *)
RECURSIVE FillLoopFirstOnly(_, _, _)
FillLoopFirstOnly(t, cols, i) ==
    IF i > Len(cols) \/ i > 1 THEN Ok(t)
    ELSE LET idx == ColIdx(t, cols[i])
         IN  IF idx = {} THEN FillLoopFirstOnly(t, cols, i + 1)
             ELSE IF Cardinality(idx) > 1 THEN Raise("TypeError")
             ELSE FillLoopFirstOnly([t EXCEPT ![TheCol(t, cols[i])] = FillColumn(@)],
                                    cols, i + 1)

RECURSIVE FillLoop(_, _, _)
FillLoop(t, cols, i) ==
    IF i > Len(cols) THEN Ok(t)
    ELSE LET idx == ColIdx(t, cols[i])
         IN  IF idx = {} THEN FillLoop(t, cols, i + 1)
             ELSE IF Cardinality(idx) > 1 THEN Raise("TypeError")
             ELSE FillLoop([t EXCEPT ![TheCol(t, cols[i])] = FillColumn(@)], cols, i + 1)

(* variant: every column is filled, whatever the target list *)
fill_all_columns(t, cols) == FillLoop(t, Names(t), 1)

fill_missing_values(t, cols) == FillLoop(t, cols, 1)

-----------------------------------------------------------------------------
(* Z-score statistics.  With the non-missing values brought to a common    *)
(* denominator (integers y_1..y_m, sum S):                                  *)
(*   mean = S / m,  std^2 = SUM (m*y_j - S)^2 / (m^2 * (m - 1))   (ddof=1) *)
(*   |x - mean| > 3 * std  <=>  (m - 1) * (m*x - S)^2 > 9 * SUM (m*y_j - S)^2 *)

ZThreshold == 3

RECURSIVE MaxDen(_)
MaxDen(v) ==
    IF v = <<>> THEN 1
    ELSE LET r == MaxDen(Tail(v)) IN IF Head(v).d > r THEN Head(v).d ELSE r

AsInt(c, den) == c.n * (den \div c.d)

RECURSIVE SumInt(_, _)
SumInt(v, den) ==
    IF v = <<>> THEN 0 ELSE AsInt(Head(v), den) + SumInt(Tail(v), den)

RECURSIVE SumSqDev(_, _, _, _)
SumSqDev(v, den, m, total) ==
    IF v = <<>> THEN 0
    ELSE (m * AsInt(Head(v), den) - total) * (m * AsInt(Head(v), den) - total)
         + SumSqDev(Tail(v), den, m, total)

(* std > 0: False when std is NaN (one value) or 0 (equal values) *)
StdPositive(v) ==
    LET den == MaxDen(v)
        m == Len(v)
    IN  m >= 2 /\ SumSqDev(v, den, m, SumInt(v, den)) > 0

(* variant: population deviation (divisor m) in place of the sample one *)
ZFlaggedPopulation(c, v) ==
    LET den == MaxDen(v)
        m == Len(v)
        total == SumInt(v, den)
        dev == m * AsInt(c, den) - total
    IN  /\ IsNum(c)
        /\ StdPositive(v)
        /\ m * dev * dev > ZThreshold * ZThreshold * SumSqDev(v, den, m, total)

(* variant: values beyond 2 deviations are flagged *)
ZFlaggedTwoSigma(c, v) ==
    LET den == MaxDen(v)
        m == Len(v)
        total == SumInt(v, den)
        dev == m * AsInt(c, den) - total
    IN  /\ IsNum(c)
        /\ StdPositive(v)
        /\ (m - 1) * dev * dev > 2 * 2 * SumSqDev(v, den, m, total)

(* z_scores.abs() > 3 for cell c, statistics over the values v; NaN > 3 is *)
(* False                                                                    *)
ZFlagged(c, v) ==
    LET den == MaxDen(v)
        m == Len(v)
        total == SumInt(v, den)
        dev == m * AsInt(c, den) - total
    IN  /\ IsNum(c)
        /\ StdPositive(v)
        /\ (m - 1) * dev * dev > ZThreshold * ZThreshold * SumSqDev(v, den, m, total)

-----------------------------------------------------------------------------
(* cleaning.remove_outliers_zscore: the statistics come from the coerced   *)
(* copy, the replacement is written into the column itself.                 *)

ZscoreColumn(c) ==
    LET numeric_series == CoerceCells(c.cells)
        non_null_values == DropNa(numeric_series)
        median_val == Median(non_null_values)
    IN  IF Len(non_null_values) > 0 /\ StdPositive(non_null_values)
        THEN [c EXCEPT !.cells =
                 [i \in DOMAIN c.cells |->
                     IF ZFlagged(numeric_series[i], non_null_values)
                     THEN median_val ELSE c.cells[i]]]
        ELSE c

RECURSIVE ZscoreLoop(_, _, _)
ZscoreLoop(t, cols, i) ==
    IF i > Len(cols) THEN Ok(t)
    ELSE LET idx == ColIdx(t, cols[i])
         IN  IF idx = {} THEN ZscoreLoop(t, cols, i + 1)
             ELSE IF Cardinality(idx) > 1 THEN Raise("TypeError")
             ELSE ZscoreLoop([t EXCEPT ![TheCol(t, cols[i])] = ZscoreColumn(@)], cols, i + 1)

(* variant: the rows holding a flagged cell are dropped *)
remove_outliers_zscore_drop(t, cols) ==
    LET r == ZscoreLoop(t, cols, 1)
    IN  IF r.err # "none" THEN r
        ELSE Ok(KeepRows(t, {i \in 1..NRows(t) :
                                \A j \in DOMAIN t : r.t[j].cells[i] = t[j].cells[i]}))

remove_outliers_zscore(t, cols) == ZscoreLoop(t, cols, 1)

-----------------------------------------------------------------------------
(* preprocess.fill_missing_values: the column is coerced; the Series that  *)
(* fillna returns is not assigned, so the column keeps its missing cells.   *)

PreFillColumn(c) ==
    [c EXCEPT !.dtype = "float64", !.cells = CoerceCells(c.cells)]

RECURSIVE PreFillLoop(_, _, _)
PreFillLoop(t, cols, i) ==
    IF i > Len(cols) THEN Ok(t)
    ELSE LET idx == ColIdx(t, cols[i])
         IN  IF idx = {} THEN PreFillLoop(t, cols, i + 1)
             ELSE IF Cardinality(idx) > 1 THEN Raise("TypeError")
             ELSE PreFillLoop([t EXCEPT ![TheCol(t, cols[i])] = PreFillColumn(@)], cols, i + 1)

pre_fill_missing_values(t, cols) == PreFillLoop(t, cols, 1)

(* preprocess.remove_outliers_zscore: no coercion and no guard on std.  A  *)
(* zero std gives 0/0 = NaN scores and a NaN std (one value) gives NaN     *)
(* scores; NaN > 3 is False, so nothing is flagged.  Arithmetic on a text  *)
(* or None column raises.                                                   *)

PreZscoreColumn(c) ==
    LET values == DropNa(c.cells)
    IN  [c EXCEPT !.cells =
            [i \in DOMAIN c.cells |->
                IF ZFlagged(c.cells[i], values) THEN Median(c.cells) ELSE c.cells[i]]]

(* variant: dividing by a zero deviation raises, as it does for plain     *)
(* Python floats                                                            *)
RECURSIVE PreZscoreLoopDivides(_, _, _)
PreZscoreLoopDivides(t, cols, i) ==
    IF i > Len(cols) THEN Ok(t)
    ELSE LET idx == ColIdx(t, cols[i])
         IN  IF idx = {} THEN PreZscoreLoopDivides(t, cols, i + 1)
             ELSE IF Cardinality(idx) > 1 THEN Raise("ValueError")
             ELSE IF t[TheCol(t, cols[i])].dtype = "object" /\ NRows(t) > 0
                  THEN Raise("TypeError")
             ELSE IF /\ Len(DropNa(t[TheCol(t, cols[i])].cells)) >= 2
                     /\ ~StdPositive(DropNa(t[TheCol(t, cols[i])].cells))
                  THEN Raise("ZeroDivisionError")
             ELSE PreZscoreLoopDivides([t EXCEPT ![TheCol(t, cols[i])] = PreZscoreColumn(@)],
                                       cols, i + 1)

RECURSIVE PreZscoreLoop(_, _, _)
PreZscoreLoop(t, cols, i) ==
    IF i > Len(cols) THEN Ok(t)
    ELSE LET idx == ColIdx(t, cols[i])
         IN  IF idx = {} THEN PreZscoreLoop(t, cols, i + 1)
             ELSE IF Cardinality(idx) > 1 THEN Raise("ValueError")
             ELSE IF t[TheCol(t, cols[i])].dtype = "object" /\ NRows(t) > 0
                  THEN Raise("TypeError")
             ELSE PreZscoreLoop([t EXCEPT ![TheCol(t, cols[i])] = PreZscoreColumn(@)],
                                cols, i + 1)

pre_remove_outliers_zscore(t, cols) == PreZscoreLoop(t, cols, 1)

(* preprocess.preprocess_dataset; saving the file does not change the table *)
preprocess_dataset(t) ==
    LET named == standardize_columns(t).t
        filled == pre_fill_missing_values(named, key_cols)
    IN  IF filled.err # "none" THEN filled
        ELSE pre_remove_outliers_zscore(filled.t, key_cols)

(* utils.save_csv_safely, reached when no stage raised: the file is        *)
(* written or to_csv fails; either way a message is printed                 *)
save_csv_safely(r, written) ==
    IF r.err # "none" THEN r
    ELSE IF written THEN Printed(r, Msg("Saved file", <<>>))
    ELSE Printed(r, Msg("Failed to save CSV", <<>>))

-----------------------------------------------------------------------------
(* Where a stage writes.  A stage that starts with df = df.copy() works on *)
(* a new table object; df.columns = ..., df[col] = ... and df.loc[...] =   *)
(* ... write into the object the stage works on, while df = df[mask] and   *)
(* df = df.drop_duplicates() only rebind the local name to a new object.   *)

(* variant: fill_missing_values without its df.copy() *)
WorksOnCopyButFill ==
    {"clean_column_names", "remove_duplicates", "handle_missing", "remove_outliers",
     "remove_outliers_zscore", "standardize_columns",
     "pre_fill_missing_values", "pre_remove_outliers_zscore", "preprocess_dataset"}

WorksOnCopy ==
    {"clean_column_names", "remove_duplicates", "handle_missing", "remove_outliers",
     "fill_missing_values", "remove_outliers_zscore", "standardize_columns",
     "pre_fill_missing_values", "pre_remove_outliers_zscore", "preprocess_dataset"}

WritesInPlace ==
    {"clean_column_names", "handle_missing", "fill_missing_values",
     "remove_outliers_zscore", "standardize_columns", "pre_fill_missing_values",
     "pre_remove_outliers_zscore", "preprocess_dataset"}

(* what the object holding table t holds once stage op, called on it, has  *)
(* returned r                                                               *)
InputAfter(op, t, r) ==
    IF op \in WritesInPlace /\ op \notin WorksOnCopy /\ r.err = "none" THEN r.t ELSE t

-----------------------------------------------------------------------------
(* The caller: loads a table, then calls stages, each on the table the     *)
(* previous call returned.                                                  *)

FloatVals == {NaN, Num(1), Num(3), Num(1000)}

TextVals == {NaN, Str("A"), Str("B"), Str("8")}

SparseText == {NaN, Str("8"), Str("A")}

GHIsp == <<"G", "H", "I", " ">>

CatA == <<"C", "a", "t", " ", "A">>

Headers == {<<ghi, dni>>, <<GHIsp, ghi>>, <<ghi, CatA>>}

OneColumnTables ==
    UNION {{<<Column(ghi, "float64", c)>> : c \in [1..m -> FloatVals]}
           \cup {<<Column(ghi, "object", c)>> : c \in [1..m -> TextVals]} : m \in 0..MaxRows}

(* columns of MaxRows cells: one repeated value with one cell set freely *)
OneSpecial(base, vals) ==
    {[i \in 1..MaxRows |-> IF i = p THEN a ELSE base] : p \in 1..MaxRows, a \in vals}

SecondColumns(nm) ==
    {Column(nm, "float64", c) : c \in OneSpecial(Num(1), {NaN, Num(1000)})}
    \cup {Column(nm, "object", c) : c \in OneSpecial(NaN, SparseText)}

TwoColumnTables ==
    UNION {{<<Column(h[1], "float64", a), b>> :
               a \in OneSpecial(Num(1), {NaN, Num(1000)}), b \in SecondColumns(h[2])} : h \in Headers}

Inputs == OneColumnTables \cup TwoColumnTables

TargetLists == {<<ghi>>, <<ghi, dni>>, <<dni, tamb, ghi>>}

Init ==
    /\ df \in Inputs
    /\ arg = df
    /\ given = df
    /\ call = [op |-> "load", cols |-> <<>>]
    /\ err = "none"
    /\ out = <<>>

(* one call: the result replaces the caller's table unless the call raised *)
Do(op, cols, r) ==
    /\ arg' = df
    /\ given' = InputAfter(op, df, r)
    /\ call' = [op |-> op, cols |-> cols]
    /\ err' = r.err
    /\ out' = r.out
    /\ df' = IF r.err = "none" THEN r.t ELSE df

CleanColumnNames == Do("clean_column_names", <<>>, clean_column_names(df))

StandardizeColumns == Do("standardize_columns", <<>>, standardize_columns(df))

RemoveDuplicates == Do("remove_duplicates", <<>>, remove_duplicates(df))

UtilsRemoveDuplicates == Do("utils_remove_duplicates", <<>>, utils_remove_duplicates(df))

HandleMissing == Do("handle_missing", <<>>, handle_missing(df))

RemoveOutliers ==
    \E cols \in TargetLists : Do("remove_outliers", cols, remove_outliers(df, cols))

FillMissingValues ==
    \E cols \in TargetLists : Do("fill_missing_values", cols, fill_missing_values(df, cols))

RemoveOutliersZscore ==
    \E cols \in TargetLists :
        Do("remove_outliers_zscore", cols, remove_outliers_zscore(df, cols))

PreFillMissingValues ==
    \E cols \in TargetLists :
        Do("pre_fill_missing_values", cols, pre_fill_missing_values(df, cols))

PreRemoveOutliersZscore ==
    \E cols \in TargetLists :
        Do("pre_remove_outliers_zscore", cols, pre_remove_outliers_zscore(df, cols))

PreprocessDataset ==
    \E written \in BOOLEAN :
        Do("preprocess_dataset", key_cols, save_csv_safely(preprocess_dataset(df), written))

Next ==
    \/ CleanColumnNames
    \/ StandardizeColumns
    \/ RemoveDuplicates
    \/ UtilsRemoveDuplicates
    \/ HandleMissing
    \/ RemoveOutliers
    \/ FillMissingValues
    \/ RemoveOutliersZscore
    \/ PreFillMissingValues
    \/ PreRemoveOutliersZscore
    \/ PreprocessDataset

Spec == Init /\ [][Next]_vars

-----------------------------------------------------------------------------
(* Long columns: a Z-score beyond 3 needs at least 11 values, so the       *)
(* outlier stages are also run on columns of LongRows rows: one repeated   *)
(* value with two cells set freely.                                         *)

LongVals == {NaN, Num(1), Num(15), Num(40)}

LongText == {NaN, Str("8"), Str("40"), Str("A")}

LongCells(base, vals) ==
    {[i \in 1..LongRows |-> IF i = p THEN a ELSE IF i = q THEN c ELSE base] :
        p \in 1..LongRows, q \in 1..LongRows, a \in vals, c \in vals}

(* one row less, one cell set freely and the last one missing: at most    *)
(* LongRows - 2 values                                                      *)
ShorterCells(base, vals) ==
    {[i \in 1..(LongRows - 1) |->
         IF i = LongRows - 1 THEN NaN ELSE IF i = p THEN a ELSE base] :
        p \in 1..(LongRows - 2), a \in vals}

(* the literal Z-score case: ghi = [1, 2, 3, 1000] *)
ZscoreExample == <<Column(ghi, "float64", <<Num(1), Num(2), Num(3), Num(1000)>>)>>

LongInputs ==
    {<<Column(ghi, "float64", c)>> : c \in LongCells(Num(1), LongVals)}
    \cup {<<Column(ghi, "object", c)>> : c \in LongCells(Str("8"), LongText)}
    \cup {<<Column(ghi, "float64", c)>> : c \in ShorterCells(Num(1), LongVals)}
    \cup {ZscoreExample}

InitLong ==
    /\ df \in LongInputs
    /\ arg = df
    /\ given = df
    /\ call = [op |-> "load", cols |-> <<>>]
    /\ err = "none"
    /\ out = <<>>

NextLong ==
    \/ RemoveOutliers
    \/ RemoveOutliersZscore
    \/ PreRemoveOutliersZscore
    \/ PreprocessDataset

SpecLong == InitLong /\ [][NextLong]_vars

-----------------------------------------------------------------------------
(* Reference notions used by the properties, stated without the sorting    *)
(* the stages use.                                                          *)

(* the k-th smallest of a non-empty sequence of numbers, by counting *)
OrderStat(v, k) ==
    CHOOSE a \in Range(v) :
        /\ Cardinality({i \in DOMAIN v : Less(v[i], a)}) < k
        /\ k <= Cardinality({i \in DOMAIN v : Leq(v[i], a)})

RefMedian(v) ==
    LET m == Len(v)
    IN  IF m % 2 = 1 THEN OrderStat(v, (m + 1) \div 2)
        ELSE Scale(Add(OrderStat(v, m \div 2), OrderStat(v, m \div 2 + 1)), 1, 2)

(* the non-missing numeric values of a column, text that spells a number   *)
(* included                                                                 *)
NumericValues(cells) == DropNa(CoerceCells(cells))

Targeted(c) == c.name \in Range(call.cols)

-----------------------------------------------------------------------------
(* the literal case of the median fill *)
C1Example == <<Column(ghi, "float64", <<Num(1), NaN, Num(3), Num(1000)>>)>>

C1Filled == <<Column(ghi, "float64", <<Num(1), Num(3), Num(3), Num(1000)>>)>>

-----------------------------------------------------------------------------
(* C2 *)

Tied(cells) == Cardinality(Modes(cells)) > 1

FirstAt(cells, v) == CHOOSE i \in DOMAIN cells : cells[i] = v /\ \A j \in 1..(i - 1) : cells[j] # v

MostFrequent(cells, v) ==
    /\ v \in Range(DropNa(cells))
    /\ \A w \in Range(DropNa(cells)) : Count(cells, w) <= Count(cells, v)

(* C2 as stated: when handle_missing fills a categorical column whose      *)
(* most frequent non-missing values are tied, the missing cells receive    *)
(* the tied value that occurs first in row order.                           *)
C2_FirstEncountered ==
    (call.op = "handle_missing" /\ err = "none") =>
       \A j \in DOMAIN arg :
          (arg[j].dtype = "object" /\ Tied(arg[j].cells)) =>
             \A i \in DOMAIN arg[j].cells :
                IsNa(arg[j].cells[i]) =>
                   /\ MostFrequent(arg[j].cells, df[j].cells[i])
                   /\ \A w \in Range(DropNa(arg[j].cells)) :
                         MostFrequent(arg[j].cells, w) =>
                            FirstAt(arg[j].cells, df[j].cells[i]) <= FirstAt(arg[j].cells, w)

(* C2 amended: when handle_missing fills a categorical column whose most   *)
(* frequent non-missing values are tied, the missing cells receive the     *)
(* tied value that is smallest in sort order (Series.mode() sorts its      *)
(* result), wherever it occurs in the column.                               *)
C2_SmallestOfTied ==
    (call.op = "handle_missing" /\ err = "none") =>
       \A j \in DOMAIN arg :
          (arg[j].dtype = "object" /\ Tied(arg[j].cells)) =>
             \A i \in DOMAIN arg[j].cells :
                IsNa(arg[j].cells[i]) =>
                   /\ MostFrequent(arg[j].cells, df[j].cells[i])
                   /\ \A w \in Range(DropNa(arg[j].cells)) :
                         MostFrequent(arg[j].cells, w) =>
                            StrRank[df[j].cells[i].s] <= StrRank[w.s]

C2_Witness ==
    /\ call.op = "handle_missing"
    /\ err = "none"
    /\ arg = <<Column(ghi, "object", <<Str("B"), Str("A"), NaN>>)>>
    /\ df = <<Column(ghi, "object", <<Str("B"), Str("A"), Str("A")>>)>>

-----------------------------------------------------------------------------
(* C3 *)

Collides(t) ==
    \E i, j \in DOMAIN t :
        i # j /\ t[i].name # t[j].name /\ NormalizeName(t[i].name) = NormalizeName(t[j].name)

IsNormalizer(op) == op \in {"clean_column_names", "standardize_columns"}

(* C3 as stated: column normalization fails with a SchemaError whenever    *)
(* two distinct input column names map to the same normalized name; it     *)
(* never returns a table in which both columns carry the same name.        *)
C3_CollisionRaises ==
    (IsNormalizer(call.op) /\ UniqueNames(arg) /\ Collides(arg)) =>
       /\ err = "SchemaError"
       /\ df = arg

-----------------------------------------------------------------------------
(* C4 *)

Row(t, i) == [j \in DOMAIN t |-> t[j].cells[i]]

(* the rows of a from row i on are, in order, among the rows of b from j on *)
RECURSIVE SubRows(_, _, _, _)
SubRows(a, b, i, j) ==
    IF i > NRows(a) THEN TRUE
    ELSE IF j > NRows(b) THEN FALSE
    ELSE IF Row(a, i) = Row(b, j) THEN SubRows(a, b, i + 1, j + 1)
    ELSE SubRows(a, b, i, j + 1)

SameColumns(a, b) ==
    /\ Len(a) = Len(b)
    /\ \A j \in DOMAIN a : a[j].name = b[j].name /\ a[j].dtype = b[j].dtype

IsOutlierStage(op) == op \in {"remove_outliers", "remove_outliers_zscore"}

-----------------------------------------------------------------------------
(* C5 *)

RECURSIVE RefSum(_, _)
RefSum(v, den) ==
    IF v = <<>> THEN 0 ELSE Head(v).n * (den \div Head(v).d) + RefSum(Tail(v), den)

RECURSIVE RefSumSq(_, _)
RefSumSq(v, den) ==
    IF v = <<>> THEN 0
    ELSE (Head(v).n * (den \div Head(v).d)) * (Head(v).n * (den \div Head(v).d))
         + RefSumSq(Tail(v), den)

(* |x - mean| > 3 * std with std^2 = (SUM y^2 - S^2 / m) / (m - 1), i.e.   *)
(* (m - 1) * (m*x - S)^2 > 9 * m * (m * SUM y^2 - S^2)                      *)
RefFlagged(x, v) ==
    LET den == MaxDen(v)
        m == Len(v)
        total == RefSum(v, den)
        dev == m * (x.n * (den \div x.d)) - total
    IN  /\ IsNum(x)
        /\ m >= 2
        /\ (m - 1) * dev * dev > (9 * m) * (m * RefSumSq(v, den) - total * total)

-----------------------------------------------------------------------------
(* C6 *)

(* the linear-interpolation quartile p/4, from order statistics *)
RefQuantile(cells, p) ==
    LET v == DropNa(cells)
        m == Len(v)
        lo == ((m - 1) * p) \div 4
        r == ((m - 1) * p) % 4
    IN  IF r = 0 THEN OrderStat(v, lo + 1)
        ELSE Add(OrderStat(v, lo + 1),
                 Scale(Sub(OrderStat(v, lo + 2), OrderStat(v, lo + 1)), r, 4))

(* c lies in [Q1 - 1.5*IQR, Q3 + 1.5*IQR] for the quartiles of cells *)
RefInFence(c, cells) ==
    LET q1 == RefQuantile(cells, 1)
        q3 == RefQuantile(cells, 3)
    IN  /\ IsNum(c)
        /\ Leq(Sub(q1, Scale(Sub(q3, q1), 3, 2)), c)
        /\ Leq(c, Add(q3, Scale(Sub(q3, q1), 3, 2)))

NumericTargets(t, cols) ==
    \A k \in DOMAIN cols :
        /\ Cardinality(ColIdx(t, cols[k])) = 1
        /\ t[TheCol(t, cols[k])].dtype # "object"

(* the table as it stands when the k-th target column is processed *)
Before(t, cols, k) == remove_outliers(t, SubSeq(cols, 1, k - 1)).t

-----------------------------------------------------------------------------
(* C7 *)

(* normalization, duplicate removal, median imputation and outlier         *)
(* correction over the measurement columns, in this order                   *)
Composition(t) ==
    LET named == clean_column_names(t).t
        unique == drop_duplicates(named)
        filled == fill_missing_values(unique, key_cols).t
    IN  remove_outliers_zscore(filled, key_cols).t

NoEqualRows(t) == \A i, j \in 1..NRows(t) : Row(t, i) = Row(t, j) => i = j

NoMissingMeasurement(t, input) ==
    \A j \in DOMAIN t :
        (t[j].name \in Range(key_cols) /\ NumericValues(input[j].cells) # <<>>) =>
           \A i \in DOMAIN t[j].cells : ~IsNa(t[j].cells[i])

(* C7 as stated: for every raw table preprocess_dataset returns the same   *)
(* table as normalization, then duplicate removal, then median imputation  *)
(* over the measurement columns, then outlier correction over the same     *)
(* columns; the result has no two equal rows and no missing value in a     *)
(* measurement column that has at least one numeric value.                 *)
C7_PipelineIsComposition ==
    (call.op = "preprocess_dataset" /\ UniqueNames(clean_column_names(arg).t)) =>
       /\ err = "none"
       /\ df = Composition(arg)
       /\ NoEqualRows(df)
       /\ NoMissingMeasurement(df, arg)

-----------------------------------------------------------------------------
(* C8 as stated: preprocess.fill_missing_values returns a table in which   *)
(* every missing value of each listed column that is present has been      *)
(* replaced by that column's median, so no listed column with at least one *)
(* numeric value still contains a missing value.                            *)
C8_PipelineImputerFills ==
    (call.op = "pre_fill_missing_values" /\ UniqueNames(arg)) =>
       /\ err = "none"
       /\ \A j \in DOMAIN arg :
             (Targeted(arg[j]) /\ NumericValues(arg[j].cells) # <<>>) =>
                \A i \in DOMAIN arg[j].cells :
                   /\ ~IsNa(df[j].cells[i])
                   /\ IsNa(ToNumeric(arg[j].cells[i])) =>
                         df[j].cells[i] = RefMedian(NumericValues(arg[j].cells))

-----------------------------------------------------------------------------
(* C9: imputation is idempotent: applying cleaning.fill_missing_values to  *)
(* its own result with the same target list returns that result unchanged, *)
(* also when a target column is entirely missing or holds non-coercible    *)
(* values.                                                                  *)
C9_FillIdempotent ==
    (call.op = "fill_missing_values" /\ err = "none") =>
       fill_missing_values(df, call.cols) = Ok(df)

HasNonCoercible(cells) ==
    \E i \in DOMAIN cells : cells[i].k = "str" /\ IsNa(ToNumeric(cells[i]))

C9_Witness ==
    /\ call.op = "fill_missing_values"
    /\ err = "none"
    /\ df # arg
    /\ \E j \in DOMAIN arg :
          /\ Targeted(arg[j])
          /\ HasNonCoercible(arg[j].cells)
          /\ \E i \in DOMAIN arg[j].cells : IsNa(arg[j].cells[i])
          /\ \E i \in DOMAIN df[j].cells : df[j].cells[i] # ToNumeric(arg[j].cells[i])

-----------------------------------------------------------------------------
(* C10: cleaning.fill_missing_values leaves every column that is not in    *)
(* the target list unchanged cell by cell: its missing cells stay missing  *)
(* and no value is coerced or replaced.                                     *)
C10_OtherColumnsUntouched ==
    (call.op = "fill_missing_values" /\ err = "none") =>
       /\ Len(df) = Len(arg)
       /\ \A j \in DOMAIN arg : ~Targeted(arg[j]) => df[j] = arg[j]

C10_Witness ==
    /\ call.op = "fill_missing_values"
    /\ err = "none"
    /\ df # arg
    /\ \E j \in DOMAIN arg :
          /\ ~Targeted(arg[j])
          /\ df[j] = arg[j]
          /\ \E i, k \in DOMAIN arg[j].cells :
                IsNa(arg[j].cells[i]) /\ arg[j].cells[k] = Str("8")

-----------------------------------------------------------------------------
(* C11 *)

Signalled(text) == \E i \in DOMAIN out : out[i].text = text

(* C11 as stated: when a target column has no non-missing numeric value,   *)
(* cleaning.fill_missing_values does not fail, leaves every cell of that   *)
(* column missing, and reports an UndefinedImputationWarning signal.       *)
C11_AllMissingWarns ==
    (call.op = "fill_missing_values" /\ UniqueNames(arg)) =>
       /\ err = "none"
       /\ \A j \in DOMAIN arg :
             (/\ Targeted(arg[j])
              /\ arg[j].cells # <<>>
              /\ NumericValues(arg[j].cells) = <<>>) =>
                /\ DOMAIN df[j].cells = DOMAIN arg[j].cells
                /\ \A i \in DOMAIN df[j].cells : IsNa(df[j].cells[i])
                /\ Signalled("UndefinedImputationWarning")

-----------------------------------------------------------------------------
(* the literal case of the mode fill *)
C12Example == <<Column(ghi, "object", <<Str("A"), NaN, Str("B"), Str("B")>>)>>

C12Filled == <<Column(ghi, "object", <<Str("A"), Str("B"), Str("B"), Str("B")>>)>>

(* C12: handle_missing, on a table with distinct column labels, returns a  *)
(* table in which, for every categorical (text) column, each cell that was *)
(* missing holds a most frequent non-missing value of the column, one and  *)
(* the same for all of them, or the label "Unknown" when the column has no *)
(* non-missing value, and every other cell is unchanged; ["A", missing,    *)
(* "B", "B"] becomes ["A", "B", "B", "B"].                                 *)
C12_ModeFill ==
    /\ (call.op = "handle_missing" /\ UniqueNames(arg)) =>
          /\ err = "none"
          /\ SameColumns(df, arg)
          /\ \A j \in DOMAIN arg :
                arg[j].dtype = "object" =>
                   /\ DOMAIN df[j].cells = DOMAIN arg[j].cells
                   /\ \A i \in DOMAIN arg[j].cells :
                         IF ~IsNa(arg[j].cells[i]) THEN df[j].cells[i] = arg[j].cells[i]
                         ELSE IF DropNa(arg[j].cells) = <<>>
                              THEN df[j].cells[i] = Str("Unknown")
                         ELSE MostFrequent(arg[j].cells, df[j].cells[i])
                   /\ \A i, k \in DOMAIN arg[j].cells :
                         (IsNa(arg[j].cells[i]) /\ IsNa(arg[j].cells[k])) =>
                            df[j].cells[i] = df[j].cells[k]
    /\ (call.op = "handle_missing" /\ arg = C12Example) => df = C12Filled

C12_Witness ==
    /\ call.op = "handle_missing"
    /\ err = "none"
    /\ arg = C12Example
    /\ df = C12Filled

-----------------------------------------------------------------------------
(* C13 *)

AllEqual(v) == v # <<>> /\ \A i, j \in DOMAIN v : v[i] = v[j]

NumericDtypeTargets(t, cols) ==
    \A j \in DOMAIN t : t[j].name \in Range(cols) => t[j].dtype = "float64"

-----------------------------------------------------------------------------
(* C14 *)

AllPresent(t, cols) == \A k \in DOMAIN cols : ColIdx(t, cols[k]) # {}

(* C14 as stated: under both outlier policies (remove_outliers and         *)
(* remove_outliers_zscore), when the target columns are present and each   *)
(* has fewer than 2 non-missing values, the call raises nothing and        *)
(* returns the table unchanged: no row removed and no cell replaced.       *)
C14_FewValuesPassThrough ==
    (/\ IsOutlierStage(call.op)
     /\ UniqueNames(arg)
     /\ AllPresent(arg, call.cols)
     /\ \A j \in DOMAIN arg : Targeted(arg[j]) => Len(DropNa(arg[j].cells)) < 2) =>
       /\ err = "none"
       /\ df = arg

-----------------------------------------------------------------------------
(* C15 *)

(* the listed columns that the table has, in the listed order *)
PresentTargets(t, cols) == SelectSeq(cols, LAMBDA c : ColIdx(t, c) # {})

(* C15 as stated: under both outlier policies a listed column that is      *)
(* absent from the table is a no-op: the call raises nothing and returns   *)
(* what it returns for the list without the absent names.                  *)
C15_AbsentTargetIsNoOp ==
    /\ (call.op = "remove_outliers" /\ UniqueNames(arg)) =>
          /\ remove_outliers(arg, PresentTargets(arg, call.cols)).err = "none" => err = "none"
          /\ err = "none" => df = remove_outliers(arg, PresentTargets(arg, call.cols)).t
    /\ (call.op = "remove_outliers_zscore" /\ UniqueNames(arg)) =>
          /\ err = "none"
          /\ df = remove_outliers_zscore(arg, PresentTargets(arg, call.cols)).t

-----------------------------------------------------------------------------
(* C16 *)

(* the orders in which a target list can be written *)
Reorderings(cols) ==
    {[i \in DOMAIN cols |-> cols[f[i]]] : f \in Permutations(DOMAIN cols)}

ListedStage(op, t, cols) ==
    CASE op = "fill_missing_values" -> fill_missing_values(t, cols)
      [] op = "remove_outliers" -> remove_outliers(t, cols)
      [] op = "remove_outliers_zscore" -> remove_outliers_zscore(t, cols)

-----------------------------------------------------------------------------
(* C17: no stage mutates the table it is given.  After every call of every *)
(* stage (clean_column_names, remove_duplicates of cleaning.py and of      *)
(* utils.py, handle_missing, remove_outliers, fill_missing_values,         *)
(* remove_outliers_zscore, the preprocess.py stages and                    *)
(* preprocess_dataset), in every sequence of calls and whether the call    *)
(* returned or raised, the table object that was passed holds the column   *)
(* names, rows and cell values it held when it was passed; the caller's    *)
(* original, which the stages reach only by being passed it, therefore     *)
(* stays as loaded.                                                         *)
C17_InputNotMutated ==
    call.op # "load" => given = arg

C17_Witness ==
    /\ call.op \in WritesInPlace
    /\ err = "none"
    /\ Names(df) # Names(arg) \/ \E j \in DOMAIN arg : df[j].cells # arg[j].cells
    /\ given = arg

-----------------------------------------------------------------------------
(* C18 *)

IsDuplicateRemover(op) == op \in {"remove_duplicates", "utils_remove_duplicates"}

(* where row r occurs first in table t *)
FirstIdx(t, r) ==
    CHOOSE i \in 1..NRows(t) : Row(t, i) = r /\ \A j \in 1..(i - 1) : Row(t, j) # r

(* C18: remove_duplicates (cleaning.py and utils.py) returns the columns   *)
(* of its input and exactly one row for each distinct input row, two rows  *)
(* being equal when every column's values are equal with missing equal to  *)
(* missing; the returned rows stand in the order in which they first occur *)
(* in the input; the number printed as removed is the input row count      *)
(* minus the output row count (utils.py prints "No duplicate rows found."  *)
(* without a number exactly when that difference is 0).                    *)
C18_FirstOccurrences ==
    IsDuplicateRemover(call.op) =>
       /\ err = "none"
       /\ SameColumns(df, arg)
       /\ \A j \in DOMAIN df : Len(df[j].cells) = NRows(df)
       /\ NoEqualRows(df)
       /\ \A i \in 1..NRows(arg) : \E k \in 1..NRows(df) : Row(df, k) = Row(arg, i)
       /\ \A k \in 1..NRows(df) : \E i \in 1..NRows(arg) : Row(arg, i) = Row(df, k)
       /\ \A k, l \in 1..NRows(df) :
             k < l => FirstIdx(arg, Row(df, k)) < FirstIdx(arg, Row(df, l))
       /\ Len(out) = 1
       /\ IF out[1].nums = <<>>
          THEN call.op = "utils_remove_duplicates" /\ NRows(arg) = NRows(df)
          ELSE out[1].nums = <<NRows(arg) - NRows(df)>>

C18_Witness ==
    /\ call.op = "utils_remove_duplicates"
    /\ arg = <<Column(ghi, "float64", <<Num(3), NaN, NaN, Num(3)>>)>>
    /\ df = <<Column(ghi, "float64", <<Num(3), NaN>>)>>
    /\ out = <<Msg("Removed duplicate rows.", <<2>>)>>

-----------------------------------------------------------------------------
=============================================================================
